---- MODULE Spec2Model ----
(***************************************************************************)
(* RVEA (reference-vector guided evolutionary algorithm) of pymoo:         *)
(* the optimizer shell RVEA and the survival engine APDSurvival of         *)
(* src/pymoo/algorithms/moo/rvea.py.                                       *)
(*                                                                         *)
(* numpy float64 values are modelled as fixed-point integers: the float x  *)
(* is the integer x * Scale.  Quotients round down and the norm rounds up,  *)
(* so a normalised row is never longer than 1 and every cosine lies in the *)
(* domain of arccos: the float case in which rounding lifts a cosine above *)
(* 1 is left out.  Products round to nearest.  NaN and +inf are sentinels  *)
(* that the arithmetic propagates the way IEEE 754 does.                   *)
(* Indices are 1-based (numpy's index i is i + 1 here).                    *)
(***************************************************************************)
EXTENDS Integers, Sequences, FiniteSets

\* ------------------------------------------------------------------------
\* Bounds of the model
\* ------------------------------------------------------------------------

\* the largest population handed to one selection call
MaxPop == 2

\* the counter of advance calls saturates here
MaxCalls == 10

\* ------------------------------------------------------------------------
\* State
\* ------------------------------------------------------------------------

VARIABLES
    ref_dirs,    \* APDSurvival.ref_dirs, the matrix given at construction
    alpha,       \* APDSurvival.alpha
    V,           \* APDSurvival.V
    gamma,       \* APDSurvival.gamma
    ideal,       \* APDSurvival.ideal
    nadir,       \* APDSurvival.nadir (None before the first selection)
    niches,      \* APDSurvival.niches (None before the first selection)
    cand,        \* the objective matrix F of the population of the last selection call
    meta,        \* the attributes theta, apd, niche, opt set on its candidates
    ret,         \* the indices of the candidates the last selection call returned
    perc,        \* algorithm.termination.perc, the progress
    adapt_freq,  \* RVEA.adapt_freq
    n_adapt,     \* RVEA.n_adapt
    pop,         \* RVEA.pop, the current population: records [F, CV]
    opt,         \* RVEA.opt (None before the first optimum query)
    last,        \* the operation that ran last
    fired,       \* whether the last operation called adapt
    calls,       \* the number of advance calls so far, saturating at MaxCalls
    lowest,      \* per objective, the least value of any candidate passed to selection so far
    selected,    \* whether a selection call has run
    adapted,     \* whether an adapt call has replaced V
    streak,      \* the adapt calls since the last selection call, saturating at 2
    advPerc,     \* the progress the last advance call saw (0 before the first)
    rising       \* whether every advance call saw more progress than the one before

engine == <<ref_dirs, alpha, V, gamma, ideal, nadir, niches, cand, meta, ret>>

shell == <<perc, adapt_freq, n_adapt, pop, opt>>

history == <<last, fired, calls, lowest, selected, adapted, streak, advPerc, rising>>

vars == <<engine, shell, history>>

\* ------------------------------------------------------------------------
\* float64 as fixed point
\* ------------------------------------------------------------------------

\* the float 1.0
Scale == 10000

\* the result of 0/0 (calc_V on a zero row)
NaN == -2147483647

\* np.inf, the initial ideal point
Inf == 2147483647

\* the floor 1e-64 of a distance and of a neighbour angle: the least positive value
Eps == 1

\* the adaptation frequency adapt_freq = 0.1
DefaultAdaptFreq == 1000

\* the penalty exponent alpha = 2.0 (an integral float, kept as an integer)
DefaultAlpha == 2

\* None
None == <<>>

IsNaN(x) == x = NaN

Abs(x) == IF x < 0 THEN -x ELSE x

Min2(a, b) == IF IsNaN(a) \/ IsNaN(b) THEN NaN ELSE IF a <= b THEN a ELSE b

Max2(a, b) == IF IsNaN(a) \/ IsNaN(b) THEN NaN ELSE IF a >= b THEN a ELSE b

Range(s) == {s[i] : i \in 1..Len(s)}

\* the sequence s itself, as a tuple whose entries are computed once
Strict(s) == s \o <<>>

RECURSIVE SumSeq(_)
SumSeq(s) == IF s = <<>> THEN 0 ELSE Head(s) + SumSeq(Tail(s))

HasNaN(s) == \E i \in 1..Len(s) : IsNaN(s[i])

\* round-to-nearest of n / Scale
Rescale(n) == IF n >= 0 THEN (2 * n + Scale) \div (2 * Scale)
              ELSE -((2 * (-n) + Scale) \div (2 * Scale))

\* a * b of two floats; the operands are split so that no intermediate leaves 32 bits
FMul(a, b) ==
    IF IsNaN(a) \/ IsNaN(b) THEN NaN
    ELSE LET x == Abs(a)
             y == Abs(b)
             s == IF (a < 0) = (b < 0) THEN 1 ELSE -1
             xh == x \div Scale
             xl == x % Scale
             yh == y \div Scale
             yl == y % Scale
         IN s * (xh * yh * Scale + xh * yl + xl * yh + Rescale(xl * yl))

\* a / b of two floats
FDiv(a, b) ==
    IF IsNaN(a) \/ IsNaN(b) THEN NaN
    ELSE IF b = 0 THEN (IF a = 0 THEN NaN ELSE IF a > 0 THEN Inf ELSE -Inf)
    ELSE LET s == IF (a < 0) = (b < 0) THEN 1 ELSE -1
         IN s * ((Abs(a) * Scale) \div Abs(b))

FAdd(a, b) == IF IsNaN(a) \/ IsNaN(b) THEN NaN ELSE a + b

FSub(a, b) == IF IsNaN(a) \/ IsNaN(b) THEN NaN ELSE a - b

\* x ** a for an integral exponent a >= 0 (0 ** 0 = 1)
RECURSIVE FPow(_, _)
FPow(x, a) == IF a = 0 THEN Scale ELSE FMul(x, FPow(x, a - 1))

\* the inner product of two float vectors (one entry of a matrix product)
Dot(a, b) ==
    IF HasNaN(a) \/ HasNaN(b) THEN NaN
    ELSE Rescale(SumSeq(Strict([j \in 1..Len(a) |-> a[j] * b[j]])))

\* the least r in lo..hi with r * r >= n
RECURSIVE SqrtBisect(_, _, _)
SqrtBisect(lo, hi, n) ==
    IF lo >= hi THEN lo
    ELSE LET mid == (lo + hi) \div 2
         IN IF mid * mid >= n THEN SqrtBisect(lo, mid, n)
            ELSE SqrtBisect(mid + 1, hi, n)

\* np.sqrt of an integer, rounded up
Sqrt(n) == SqrtBisect(0, 46340, n)

\* np.linalg.norm of one row
Norm(x) ==
    IF HasNaN(x) THEN NaN
    ELSE Sqrt(SumSeq(Strict([j \in 1..Len(x) |-> x[j] * x[j]])))

\* cos(0.05 * (i - 1)) for i = 1..33
CosTable ==
    << 10000, 9988, 9950, 9888, 9801, 9689, 9553, 9394, 9211,
       9004, 8776, 8525, 8253, 7961, 7648, 7317, 6967, 6600,
       6216, 5817, 5403, 4976, 4536, 4085, 3624, 3153, 2675,
       2190, 1700, 1205, 707, 208, -292 >>

Pi == 31416

\* the spacing of the cosine table: 0.05
CosStep == 500

\* the segment k in lo..hi of the table with CosTable[k] >= c > CosTable[k + 1]
RECURSIVE CosSegment(_, _, _)
CosSegment(lo, hi, c) ==
    IF lo >= hi THEN lo
    ELSE LET mid == (lo + hi) \div 2
         IN IF c > CosTable[mid + 1] THEN CosSegment(lo, mid, c)
            ELSE CosSegment(mid + 1, hi, c)

\* np.arccos on [0, 1]: the table, interpolated linearly
ArcCosPos(c) ==
    LET i == CosSegment(1, Len(CosTable) - 1, c)
    IN CosStep * (i - 1)
       + (CosStep * (CosTable[i] - c)) \div (CosTable[i] - CosTable[i + 1])

\* np.arccos
ArcCos(c) ==
    IF IsNaN(c) \/ c > Scale \/ c < -Scale THEN NaN
    ELSE IF c >= 0 THEN ArcCosPos(c) ELSE Pi - ArcCosPos(-c)

\* np.argmin / ndarray.argmin of a vector: the first NaN if there is one, else the
\* first least entry
ArgMin(s) ==
    IF HasNaN(s) THEN CHOOSE i \in 1..Len(s) : IsNaN(s[i]) /\ \A j \in 1..(i - 1) : ~IsNaN(s[j])
    ELSE CHOOSE i \in 1..Len(s) :
             /\ \A j \in 1..Len(s) : s[i] <= s[j]
             /\ \A j \in 1..(i - 1) : s[j] > s[i]

\* ------------------------------------------------------------------------
\* Geometry helpers
\* ------------------------------------------------------------------------

\* calc_V: every row divided by its norm
calc_V(dirs) ==
    Strict([i \in 1..Len(dirs) |->
        LET nrm == Norm(dirs[i])
        IN Strict([j \in 1..Len(dirs[i]) |-> FDiv(dirs[i][j], nrm)])])

\* (-np.sort(-1 * V @ V.T))[i, 1]: the second entry of row i of the cosine matrix
\* sorted in descending order, np.sort putting every NaN last
SecondLargest(row) ==
    LET ok == {k \in 1..Len(row) : ~IsNaN(row[k])}
    IN IF Cardinality(ok) < 2 THEN NaN
       ELSE LET m == CHOOSE k \in ok : \A l \in ok : row[k] >= row[l]
                rest == ok \ {m}
                r == CHOOSE k \in rest : \A l \in rest : row[k] >= row[l]
            IN row[r]

\* calc_gamma: the angle of every direction to its nearest neighbour, floored
calc_gamma(Vm) ==
    Strict([i \in 1..Len(Vm) |->
        LET cosines == Strict([k \in 1..Len(Vm) |-> Dot(Vm[i], Vm[k])])
        IN Max2(ArcCos(SecondLargest(cosines)), Eps)])

\* ScaleRows with every component scaled by the spread of the first objective
ScaleRowsUniform(Vm, nad, idl) ==
    Strict([i \in 1..Len(Vm) |->
        Strict([j \in 1..Len(Vm[i]) |-> FMul(Vm[i][j], FSub(nad[1], idl[1]))])])

\* calc_V(self.ref_dirs) * (self.nadir - self.ideal): the rows scaled component-wise
ScaleRows(Vm, nad, idl) ==
    Strict([i \in 1..Len(Vm) |->
        Strict([j \in 1..Len(Vm[i]) |-> FMul(Vm[i][j], FSub(nad[j], idl[j]))])])

\* AdaptV rescaling the V in place instead of the original reference directions
AdaptVCompound(dirs, nad, idl) == calc_V(ScaleRows(V, nad, idl))

\* the V that adapt installs
AdaptV(dirs, nad, idl) == calc_V(ScaleRows(calc_V(dirs), nad, idl))

\* ------------------------------------------------------------------------
\* APDSurvival._do
\* ------------------------------------------------------------------------

RECURSIVE ColMin(_, _, _)
ColMin(F, j, n) == IF n = 1 THEN F[1][j] ELSE Min2(F[n][j], ColMin(F, j, n - 1))

RECURSIVE ColMax(_, _, _)
ColMax(F, j, n) == IF n = 1 THEN F[1][j] ELSE Max2(F[n][j], ColMax(F, j, n - 1))

\* NewIdeal without the previous ideal point: F.min(axis=0)
NewIdealOfPopulation(F, idl) == Strict([j \in 1..Len(idl) |-> ColMin(F, j, Len(F))])

\* np.minimum(F.min(axis=0), self.ideal)
NewIdeal(F, idl) == Strict([j \in 1..Len(idl) |-> Min2(ColMin(F, j, Len(F)), idl[j])])

\* the indices i <= n with assign[i] = k, in population order (niches_to_ind[k])
RECURSIVE AssignedTo(_, _, _)
AssignedTo(assign, k, n) ==
    IF n = 0 THEN <<>>
    ELSE IF assign[n] = k THEN Append(AssignedTo(assign, k, n - 1), n)
    ELSE AssignedTo(assign, k, n - 1)

\* acute_angle.argmin(axis=1): the niche of every candidate
NicheOf(acute) == Strict([i \in 1..Len(acute) |-> ArgMin(acute[i])])

\* M = problem.n_obj if problem.n_obj > 2.0 else 1.0
PenaltyM(n_obj) == IF n_obj > 2 THEN n_obj * Scale ELSE Scale

\* apd of one candidate: dist * (1 + M * progress ** alpha * (theta / gamma))
Apd(dist, theta, gam, progress, al, n_obj) ==
    LET penalty == FMul(FMul(PenaltyM(n_obj), FPow(progress, al)), FDiv(theta, gam))
    IN FMul(dist, FAdd(Scale, penalty))

\* assigned_to_niche[apd.argmin()]
Survivor(assigned, apds) == assigned[ArgMin(apds)]

\* Survivors with the append outside the test for an empty niche: an empty niche
\* appends the survivor of the niche before it once more
RECURSIVE SurvivorsOfEveryNiche(_, _, _)
SurvivorsOfEveryNiche(n2i, surv, k) ==
    IF k = 0 THEN <<>>
    ELSE LET before == SurvivorsOfEveryNiche(n2i, surv, k - 1)
         IN IF Len(n2i[k]) > 0 THEN Append(before, surv[k])
            ELSE IF before = <<>> THEN before
            ELSE Append(before, before[Len(before)])

\* the survivors of the niches 1..k that are not empty, in niche order
RECURSIVE Survivors(_, _, _)
Survivors(n2i, surv, k) ==
    IF k = 0 THEN <<>>
    ELSE IF Len(n2i[k]) > 0 THEN Append(Survivors(n2i, surv, k - 1), surv[k])
    ELSE Survivors(n2i, surv, k - 1)

\* one selection call on the objective matrix F: the new ideal point, the niches,
\* the attributes set on the candidates, the indices returned and the new nadir point
Do(Vm, gam, idl, F, progress, al) ==
    LET n == Len(F)
        d == Len(idl)
        N == Len(Vm)
        ideal2 == NewIdeal(F, idl)
        Ft == Strict([i \in 1..n |-> Strict([j \in 1..d |-> FSub(F[i][j], ideal2[j])])])
        dist0 == Strict([i \in 1..n |-> Norm(Ft[i])])
        dist == Strict([i \in 1..n |-> IF dist0[i] < Eps THEN Eps ELSE dist0[i]])
        Fp == Strict([i \in 1..n |-> Strict([j \in 1..d |-> FDiv(Ft[i][j], dist[i])])])
        acute == Strict([i \in 1..n |->
                     Strict([k \in 1..N |-> ArcCos(Dot(Fp[i], Vm[k]))])])
        assign == NicheOf(acute)
        n2i == Strict([k \in 1..N |-> AssignedTo(assign, k, n)])
        apd == Strict([i \in 1..n |->
                   Apd(dist[i], acute[i][assign[i]], gam[assign[i]], progress, al, d)])
        surv == Strict([k \in 1..N |->
                   IF Len(n2i[k]) > 0
                   THEN Survivor(n2i[k], Strict([m \in 1..Len(n2i[k]) |-> apd[n2i[k][m]]]))
                   ELSE 0])
        out == Survivors(n2i, surv, N)
        Fret == Strict([m \in 1..Len(out) |-> F[out[m]]])
    IN [ideal |-> ideal2,
        niches |-> n2i,
        meta |-> Strict([i \in 1..n |->
                     [theta |-> acute[i][assign[i]], apd |-> apd[i],
                      niche |-> assign[i], opt |-> (surv[assign[i]] = i)]]),
        ret |-> out,
        nadir |-> Strict([j \in 1..d |-> ColMax(Fret, j, Len(Fret))])]

\* a matrix of small integers as a matrix of floats
ToFloat(m) == Strict([i \in 1..Len(m) |-> Strict([j \in 1..Len(m[i]) |-> m[i][j] * Scale])])

\* the reference-direction matrices the engine is constructed with
RefDirChoices ==
    { ToFloat(<< <<1, 0>>, <<1, 1>>, <<0, 1>> >>),
      ToFloat(<< <<1, 0>>, <<0, 1>> >>),
      ToFloat(<< <<1, 0, 0>>, <<0, 1, 0>>, <<0, 0, 1>>, <<1, 1, 1>> >>) }

\* the objective vectors of the candidates, by number of objectives
Points(d) ==
    IF d = 2 THEN {<<0, 0>>, <<1, 2>>, <<2, 2>>}
    ELSE {<<0, 0, 0>>, <<1, 2, 2>>, <<2, 2, 2>>}

\* the populations of at most n candidates with d objectives
Populations(d, n) ==
    UNION {{ToFloat(q) : q \in [1..m -> Points(d)]} : m \in 1..n}

\* the progress values of the engine's runs
EnginePercs == {0, Scale \div 2, Scale}

n_obj == Len(ref_dirs[1])

\* ------------------------------------------------------------------------
\* APDSurvival
\* ------------------------------------------------------------------------

\* APDSurvival.__init__
Construct(dirs, al) ==
    /\ ref_dirs = dirs
    /\ alpha = al
    /\ V = calc_V(dirs)
    /\ gamma = calc_gamma(V)
    /\ ideal = [j \in 1..Len(dirs[1]) |-> Inf]
    /\ nadir = None
    /\ niches = None
    /\ cand = <<>>
    /\ meta = <<>>
    /\ ret = <<>>

\* AdaptEffect testing the ideal point alone: a missing nadir point counts as no spread
AdaptEffectUnguarded(idl, nad) ==
    IF idl # None
    THEN /\ V' = AdaptV(ref_dirs, IF nad = None THEN idl ELSE nad, idl)
         /\ gamma' = calc_gamma(V')
         /\ adapted' = TRUE
    ELSE UNCHANGED <<V, gamma, adapted>>

\* the assignments of APDSurvival.adapt when it finds the estimates idl and nad
AdaptEffect(idl, nad) ==
    IF idl # None /\ nad # None
    THEN /\ V' = AdaptV(ref_dirs, nad, idl)
         /\ gamma' = calc_gamma(V')
         /\ adapted' = TRUE
    ELSE UNCHANGED <<V, gamma, adapted>>

\* a call of APDSurvival.adapt
Adapt ==
    /\ AdaptEffect(ideal, nadir)
    /\ last' = "adapt"
    /\ fired' = TRUE
    /\ streak' = IF streak < 2 THEN streak + 1 ELSE streak
    /\ UNCHANGED <<ref_dirs, alpha, ideal, nadir, niches, cand, meta, ret>>
    /\ UNCHANGED <<shell, calls, lowest, selected, advPerc, rising>>

LeastOf(S) == CHOOSE x \in S : \A y \in S : x <= y

\* the assignments of APDSurvival._do on the objective matrix F
DoEffect(F) ==
    \E r \in {Do(V, gamma, ideal, F, perc, alpha)} :
       /\ ideal' = r.ideal
       /\ niches' = r.niches
       /\ nadir' = r.nadir
       /\ cand' = F
       /\ meta' = r.meta
       /\ ret' = r.ret
       /\ lowest' = [j \in 1..n_obj |->
                         LeastOf({lowest[j]} \cup {F[i][j] : i \in 1..Len(F)})]
       /\ selected' = TRUE

\* a call of APDSurvival._do
Select ==
    \E F \in Populations(n_obj, MaxPop) :
        /\ DoEffect(F)
        /\ last' = "select"
        /\ fired' = FALSE
        /\ streak' = 0
        /\ UNCHANGED <<ref_dirs, alpha, V, gamma>>
        /\ UNCHANGED <<shell, calls, adapted, advPerc, rising>>

\* the termination criterion reports a progress that never decreases
UpdateProgress(percs) ==
    \E p \in percs :
        /\ p > perc
        /\ perc' = p
        /\ last' = "progress"
        /\ fired' = FALSE
        /\ UNCHANGED <<engine, adapt_freq, n_adapt, pop, opt>>
        /\ UNCHANGED <<calls, lowest, selected, adapted, streak, advPerc, rising>>

EngineProgress == UpdateProgress(EnginePercs)

InitHistory ==
    /\ last = "init"
    /\ fired = FALSE
    /\ calls = 0
    /\ lowest = [j \in 1..n_obj |-> Inf]
    /\ selected = FALSE
    /\ adapted = FALSE
    /\ streak = 0
    /\ advPerc = 0
    /\ rising = TRUE

Init ==
    /\ \E dirs \in RefDirChoices : Construct(dirs, DefaultAlpha)
    /\ perc = 0
    /\ adapt_freq = DefaultAdaptFreq
    /\ n_adapt = 1
    /\ pop = <<>>
    /\ opt = None
    /\ InitHistory

Next == Select \/ Adapt \/ EngineProgress

Spec == Init /\ [][Next]_vars

\* ------------------------------------------------------------------------
\* RVEA
\* ------------------------------------------------------------------------

\* the adaptation frequencies the shell is configured with
AdaptFreqs == {DefaultAdaptFreq, 3 * DefaultAdaptFreq}

\* the progress values of the shell's runs: the multiples of 0.1 up to 1.0
ShellPercs == {k * DefaultAdaptFreq : k \in 0..(Scale \div DefaultAdaptFreq)}

\* the merged parent and offspring populations handed to survival selection
ShellPopulations ==
    { ToFloat(<< <<0, 0>> >>),
      ToFloat(<< <<0, 0>>, <<1, 2>> >>),
      ToFloat(<< <<1, 2>>, <<2, 2>> >>) }

\* GeneticAlgorithm._advance: the feasible merged population F goes through
\* survival selection and the survivors become the population
GeneticAdvance(F) ==
    /\ DoEffect(F)
    /\ pop' = [m \in 1..Len(ret') |-> [F |-> F[ret'[m]], CV |-> 0]]

\* AdaptDue with > for >=
AdaptDueStrict(p, freq, n) == FDiv(p, freq) > n * Scale

\* AdaptDue against a counter that starts at zero
AdaptDueEarly(p, freq, n) == FDiv(p, freq) >= (n - 1) * Scale

\* self.termination.perc / self.adapt_freq >= self.n_adapt
AdaptDue(p, freq, n) == FDiv(p, freq) >= n * Scale

\* RVEA._advance
Advance ==
    \E F \in ShellPopulations :
        /\ GeneticAdvance(F)
        /\ IF AdaptDue(perc, adapt_freq, n_adapt)
           THEN /\ AdaptEffect(ideal', nadir')
                /\ n_adapt' = n_adapt + 1
                /\ fired' = TRUE
                /\ streak' = 1
           ELSE /\ UNCHANGED <<V, gamma, adapted, n_adapt>>
                /\ fired' = FALSE
                /\ streak' = 0
        /\ calls' = IF calls < MaxCalls THEN calls + 1 ELSE calls
        /\ advPerc' = perc
        /\ rising' = (rising /\ (calls = 0 \/ perc > advPerc))
        /\ last' = "advance"
        /\ UNCHANGED <<ref_dirs, alpha, perc, adapt_freq, opt>>

ShellProgress == UpdateProgress(ShellPercs)

\* RVEA._setup with the reference directions given
InitShell ==
    /\ Construct(ToFloat(<< <<1, 0>>, <<1, 1>>, <<0, 1>> >>), DefaultAlpha)
    /\ perc = 0
    /\ adapt_freq \in AdaptFreqs
    /\ n_adapt = 1
    /\ pop = <<>>
    /\ opt = None
    /\ InitHistory

NextShell == Advance \/ ShellProgress

SpecShell == InitShell /\ [][NextShell]_vars

\* has_feasible(pop): some candidate violates no constraint
has_feasible(p) == \E i \in 1..Len(p) : p[i].CV <= 0

\* Optimum taking the last of the least infeasible candidates
OptimumLastLeast(p) ==
    IF ~has_feasible(p)
    THEN <<p[CHOOSE i \in 1..Len(p) :
                /\ \A j \in 1..Len(p) : p[i].CV <= p[j].CV
                /\ \A j \in (i + 1)..Len(p) : p[j].CV > p[i].CV]>>
    ELSE p

\* the optimum RVEA._set_optimum reports for the population p
Optimum(p) ==
    IF ~has_feasible(p)
    THEN <<p[ArgMin([i \in 1..Len(p) |-> p[i].CV])]>>
    ELSE p

\* RVEA._set_optimum
SetOptimum ==
    /\ Len(pop) > 0
    /\ opt' = Optimum(pop)
    /\ last' = "optimum"
    /\ fired' = FALSE
    /\ UNCHANGED <<engine, perc, adapt_freq, n_adapt, pop>>
    /\ UNCHANGED <<calls, lowest, selected, adapted, streak, advPerc, rising>>

\* the constraint violations of the candidates of an optimum query
Violations == {0, Scale \div 2, Scale, 2 * Scale}

\* the populations of at most n evaluated candidates
EvaluatedPopulations(n) ==
    UNION {[1..m -> [F : {<<0, 0>>, <<Scale, 2 * Scale>>}, CV : Violations]] : m \in 1..n}

InitOptimum ==
    /\ Construct(ToFloat(<< <<1, 0>>, <<1, 1>>, <<0, 1>> >>), DefaultAlpha)
    /\ perc = 0
    /\ adapt_freq = DefaultAdaptFreq
    /\ n_adapt = 1
    /\ pop \in EvaluatedPopulations(MaxPop)
    /\ opt = None
    /\ InitHistory

NextOptimum == SetOptimum

SpecOptimum == InitOptimum /\ [][NextOptimum]_vars

\* ------------------------------------------------------------------------
\* Properties
\* ------------------------------------------------------------------------

\* the niches that hold at least one candidate
OccupiedNiches == {k \in 1..Len(niches) : Len(niches[k]) > 0}

\* how often candidate i is listed in the niches
TimesAssigned(i) ==
    SumSeq(Strict([k \in 1..Len(niches) |->
        Cardinality({m \in 1..Len(niches[k]) : niches[k][m] = i})]))

\* C1: a selection call on a non-empty population returns no more survivors than
\* there are reference directions, exactly as many as there are reference directions
\* with a candidate assigned; every candidate is assigned to exactly one reference
\* direction and no candidate is returned twice.
C1_NicheCapacity ==
    selected =>
        /\ Len(niches) = Len(ref_dirs)
        /\ Len(ret) <= Len(ref_dirs)
        /\ Len(ret) = Cardinality(OccupiedNiches)
        /\ \A i \in 1..Len(cand) : TimesAssigned(i) = 1
        /\ \A a \in 1..Len(ret) : ret[a] \in 1..Len(cand)
        /\ \A a, b \in 1..Len(ret) : a # b => ret[a] # ret[b]

\* a selection that left a niche empty and put two candidates into another
C1_Witness ==
    /\ last = "select"
    /\ Len(ret) < Len(ref_dirs)
    /\ \E k \in 1..Len(niches) : Len(niches[k]) >= 2
    /\ \E k \in 1..(Len(niches) - 1) : Len(niches[k]) = 0 /\ Len(niches[k + 1]) > 0

\* a float that is a number
Finite(x) == ~IsNaN(x) /\ x # Inf /\ x # -Inf

\* a row of L2 norm 1, up to the rounding of its entries
UnitRow(v) == ~HasNaN(v) /\ Abs(Dot(v, v) - Scale) <= Scale \div 100

\* C3: in every state reachable by construction and any sequence of select and adapt
\* calls, every row of V has unit L2 norm and gamma has one entry per reference
\* direction, each at least the epsilon floor; also after an adapt that follows a
\* select whose survivors give nadir - ideal a zero component.
C3_UnitGeometry ==
    /\ Len(V) = Len(ref_dirs)
    /\ \A i \in 1..Len(V) : UnitRow(V[i])
    /\ Len(gamma) = Len(ref_dirs)
    /\ \A i \in 1..Len(gamma) : Finite(gamma[i]) /\ gamma[i] >= Eps

\* C4: no component of the ideal point ever increases; the ideal point is the
\* component-wise minimum of the objective values of all candidates passed to select
\* so far, +infinity before the first; adapt never changes the ideal point.
C4_IdealMonotone ==
    /\ [](ideal = lowest)
    /\ [][\A j \in 1..Len(ideal) : ideal'[j] <= ideal[j]]_vars
    /\ [][last' = "adapt" => ideal' = ideal]_vars

\* a selection whose population lies above an ideal point that an earlier
\* population set
C4_Witness ==
    /\ last = "select"
    /\ \E j \in 1..Len(ideal) : ideal[j] < ColMin(cand, j, Len(cand))

\* C6: adapt calls before any select call change nothing: V, gamma, ideal and nadir
\* stay as construction set them.
C6_AdaptWithoutData ==
    ~selected =>
        /\ V = calc_V(ref_dirs)
        /\ gamma = calc_gamma(calc_V(ref_dirs))
        /\ \A j \in 1..Len(ideal) : ideal[j] = Inf
        /\ nadir = None

\* two adapt calls have run and no select call has
C6_Witness == ~selected /\ last = "adapt" /\ streak = 2

\* nadir - ideal, once both estimates are there
Spread == [j \in 1..Len(ideal) |-> nadir[j] - ideal[j]]

\* nadir - ideal differs between two objectives
NonUniformSpread == \E j1, j2 \in 1..Len(ideal) : Spread[j1] # Spread[j2]

\* the next step is the first adapt call after selection calls that left nadir # ideal
\* and a spread that is not uniform
FirstAdaptStep ==
    /\ last' = "adapt"
    /\ selected
    /\ ~adapted
    /\ nadir # ideal
    /\ NonUniformSpread

\* some reference direction has two non-zero components whose spreads differ
SkewedDirection ==
    \E i \in 1..Len(ref_dirs) : \E j1, j2 \in 1..Len(ideal) :
        /\ ref_dirs[i][j1] # 0
        /\ ref_dirs[i][j2] # 0
        /\ Spread[j1] # Spread[j2]

\* C7 as stated: after a select call that establishes nadir # ideal, adapt changes at
\* least one entry of V whenever nadir - ideal is not uniform across the objectives,
\* whatever the reference directions are.
C7_AdaptChangesV == [][FirstAdaptStep => V' # V]_vars

\* C7 as amended: adapt changes at least one entry of V whenever some reference
\* direction has non-zero components in two objectives whose spreads nadir - ideal
\* differ.
C7_AdaptChangesSkewed == [][(FirstAdaptStep /\ SkewedDirection) => V' # V]_vars

\* the first adapt call has run on such a spread and such a direction
C7_Witness ==
    /\ last = "adapt"
    /\ selected
    /\ streak = 1
    /\ nadir # ideal
    /\ NonUniformSpread
    /\ SkewedDirection
    /\ V # calc_V(ref_dirs)

\* the V that depends on the reference directions and on nadir - ideal alone
VFromSpread ==
    calc_V(ScaleRows(calc_V(ref_dirs), Spread, [j \in 1..Len(ideal) |-> 0]))

\* C10: the V and gamma that adapt installs are determined by the reference
\* directions given at construction, which no operation modifies, and by nadir - ideal,
\* never by the V in place: a second adapt call with no select call in between leaves
\* V and gamma as the first left them.
C10_AdaptFromOriginal ==
    /\ [][ref_dirs' = ref_dirs]_vars
    /\ []((last = "adapt" /\ selected) =>
            (V = VFromSpread /\ gamma = calc_gamma(VFromSpread)))
    /\ [][(last' = "adapt" /\ streak >= 1) => (V' = V /\ gamma' = gamma)]_vars

\* adapt has run twice in a row on a V that differs from the one of construction
C10_Witness ==
    /\ last = "adapt"
    /\ selected
    /\ streak = 2
    /\ NonUniformSpread
    /\ V # calc_V(ref_dirs)
    /\ \A i \in 1..Len(V) : ~HasNaN(V[i])

\* the distance of candidate i of the last selection to the ideal point, floored
DistToIdeal(i) ==
    LET d == Norm(Strict([j \in 1..Len(ideal) |-> FSub(cand[i][j], ideal[j])]))
    IN IF d < Eps THEN Eps ELSE d

\* the survivor of niche k: the candidate of the niche that was returned
SurvivorOf(k) == CHOOSE i \in Range(ret) : i \in Range(niches[k])

\* C9: for every reference direction k with a candidate assigned, the survivor is
\* the candidate of the niche with the least
\* apd = dist_to_ideal * (1 + M * progress^alpha * (theta / gamma[k])), M the number
\* of objectives if it exceeds 2 and 1 otherwise, the first one on ties; of the
\* candidates of a niche the optimum flag is set for the survivor only; with
\* progress = 0 and alpha > 0 the survivor is the candidate of the niche nearest the
\* ideal point.
C9_LeastApdSurvives ==
    last = "select" =>
        \A k \in OccupiedNiches :
            /\ \E i \in Range(ret) : i \in Range(niches[k])
            /\ LET w == SurvivorOf(k)
                   M == IF n_obj > 2 THEN n_obj * Scale ELSE Scale
                   apd(i) == FMul(DistToIdeal(i),
                                  FAdd(Scale, FMul(FMul(M, FPow(perc, alpha)),
                                                   FDiv(meta[i].theta, gamma[k]))))
               IN /\ \A i \in Range(niches[k]) :
                       /\ meta[i].niche = k
                       /\ meta[i].apd = apd(i)
                       /\ Finite(apd(i))
                       /\ apd(w) <= apd(i)
                       /\ i < w => apd(w) < apd(i)
                       /\ meta[i].opt = (i = w)
                  /\ (perc = 0 /\ alpha > 0) =>
                       \A i \in Range(niches[k]) : DistToIdeal(w) <= DistToIdeal(i)

\* C2: an advance call fires at most one adaptation: it calls adapt and increments
\* n_adapt by exactly 1 if and only if progress / adapt_freq >= n_adapt, and leaves
\* n_adapt unchanged otherwise; after a jump of progress the adaptations missed are
\* caught up one per advance call.
C2_OneAdaptPerAdvance ==
    [][last' = "advance" =>
        IF perc >= n_adapt * adapt_freq
        THEN /\ n_adapt' = n_adapt + 1
             /\ fired'
             /\ V' = AdaptV(ref_dirs, nadir', ideal')
             /\ gamma' = calc_gamma(V')
        ELSE /\ n_adapt' = n_adapt
             /\ ~fired'
             /\ V' = V
             /\ gamma' = gamma]_vars

\* an advance call has fired one adaptation and another one is still due
C2_Witness ==
    /\ last = "advance"
    /\ fired
    /\ perc >= (n_adapt + 1) * adapt_freq

\* the number of advance calls of a full run at the default adapt_freq
FullRun == Scale \div DefaultAdaptFreq

\* a run at the default adapt_freq whose progress rose from advance call to advance
\* call and whose last of at least FullRun advance calls saw progress 1.0
FullRunDone ==
    /\ adapt_freq = DefaultAdaptFreq
    /\ last = "advance"
    /\ perc = Scale
    /\ calls >= FullRun
    /\ rising

\* C8 as stated: the number of adaptation events fired so far, n_adapt - 1, is at
\* most progress / adapt_freq, and at the default adapt_freq a full run whose progress
\* rises to 1.0 over at least 10 advance calls fires exactly 10 adaptation events.
C8_ExactlyTenAdaptations ==
    /\ (n_adapt - 1) * adapt_freq <= perc
    /\ FullRunDone => n_adapt - 1 = FullRun

\* C8 as amended: the number of adaptation events fired so far, n_adapt - 1, is at
\* most progress / adapt_freq, and at the default adapt_freq a full run whose progress
\* rises to 1.0 over at least 10 advance calls fires at most 10 adaptation events.
C8_AtMostTenAdaptations ==
    /\ (n_adapt - 1) * adapt_freq <= perc
    /\ FullRunDone => n_adapt - 1 <= FullRun

\* a full run that fired all 10 adaptation events
C8_Witness == FullRunDone /\ n_adapt - 1 = FullRun

\* C5: with no feasible candidate in the population the optimum query reports exactly
\* one candidate, the one of least constraint violation and the first of these in
\* population order; with a feasible candidate it reports the whole population.
C5_OptimumReport ==
    last = "optimum" =>
        IF \A i \in 1..Len(pop) : pop[i].CV > 0
        THEN /\ Len(opt) = 1
             /\ \E i \in 1..Len(pop) :
                    /\ opt[1] = pop[i]
                    /\ \A j \in 1..Len(pop) : pop[i].CV <= pop[j].CV
                    /\ \A j \in 1..(i - 1) : pop[j].CV > pop[i].CV
        ELSE opt = pop

\* two distinct infeasible candidates tie on the constraint violation and the first
\* is reported
C5_Witness ==
    /\ last = "optimum"
    /\ Len(pop) >= 2
    /\ pop[1].CV > 0
    /\ pop[1].CV = pop[2].CV
    /\ pop[1].F # pop[2].F
    /\ opt = <<pop[1]>>

====
